---------------------------- MODULE Spec2Model ----------------------------
(***************************************************************************)
(* Lumi (src/lumi.py): a command line tool that synthesises a video-card   *)
(* gamma table (VCGT) from {gamma, temperature, brightness} and installs   *)
(* it as a new colord profile of a display device, retiring the profile    *)
(* it generated before.                                                    *)
(*                                                                         *)
(* Three specifications share this module:                                 *)
(*   SpecVcgt  Parser.parse + generate_vcgt, the pure curve synthesis;     *)
(*   Spec      main(), the profile lifecycle, run repeatedly in sequence   *)
(*             against the colord service and the file system;             *)
(*   SpecConc  two processes running main() at once on one display, their  *)
(*             service calls interleaved (the program takes no lock).      *)
(*                                                                         *)
(* Numbers.  Python floats are modelled as exact reals.  A rational is a   *)
(* record [n, d] (d > 0).  A curve value is a record [num, den, root]      *)
(* standing for the real (num/den)^(1/root), which is what                 *)
(* brightness * (i/511) ** (1/gamma) * cb is when gamma is rational.       *)
(*                                                                         *)
(* Strings.  A string is a sequence of tokens; `x in s` (substring) is     *)
(* membership of the token x, "" is the empty sequence (falsy in Python).  *)
(***************************************************************************)
EXTENDS Integers, Sequences, FiniteSets, TLC

VARIABLES
    devices,    \* colord: all devices, each [kind, enabled, profiles]
    profiles,   \* colord: profile objects by key, each [id, filename, metadata, vcgt]
    files,      \* file system: the paths that exist
    run,        \* run[p]: the local state of instance p of main()
    uuids,      \* number of uuid4() values drawn so far
    runs,       \* number of runs of main() started so far
    faults,     \* number of collaborator calls that have failed so far
    hist,       \* history: facts about finished runs (not program state)
    vpc,        \* SpecVcgt: position ("idle", "parsed", "done")
    vargs,      \* SpecVcgt: the inputs [gamma, brightness, colorbody]
    vcgt        \* SpecVcgt: the result of generate_vcgt

vars == <<devices, profiles, files, run, uuids, runs, faults, hist, vpc, vargs, vcgt>>

lifecycleVars == <<devices, profiles, files, run, uuids, runs, faults, hist>>
vcgtVars == <<vpc, vargs, vcgt>>

-----------------------------------------------------------------------------
(* Bounds of the model *)

\* brightness and the white point components are multiples of 1/UnitSteps
UnitSteps == 2
\* gamma = n/d with 1 <= n <= MaxGammaNum (and -1, 0 as invalid inputs)
MaxGammaNum == 2
\* the denominators of gamma; the exponent 1/gamma has this numerator
GammaDens == {1, 2}

-----------------------------------------------------------------------------
(* Arithmetic *)

RECURSIVE GCD(_, _)
GCD(a, b) == IF b = 0 THEN a ELSE GCD(b, a % b)

RECURSIVE Power(_, _)
Power(b, e) == IF e = 0 THEN 1 ELSE b * Power(b, e - 1)

Q(n, d) == [n |-> n, d |-> d]

RatLess(a, b) == a.n * b.d < b.n * a.d

\* Python's min(a, b): b if b < a else a; max(a, b): b if b > a else a
PyMin(a, b) == IF RatLess(b, a) THEN b ELSE a
PyMax(a, b) == IF RatLess(a, b) THEN b ELSE a

\* values of one curve share den and root, so they compare by num
ValLeq(v, w) ==
    /\ v.root = w.root
    /\ IF v.den = w.den THEN v.num <= w.num ELSE v.num * w.den <= w.num * v.den

ValEq(v, w) == ValLeq(v, w) /\ ValLeq(w, v)

\* the rational q as a value with the given root and denominator
AsValue(q, root, den) ==
    [num |-> Power(q.n, root) * (den \div Power(q.d, root)), den |-> den, root |-> root]

-----------------------------------------------------------------------------
(* generate_vcgt, src/lumi.py:16-32 *)

samples == 512

\* line 18: 1 / gamma raises ZeroDivisionError for gamma = 0
gamma_factor_raises(gamma) == gamma.n = 0

gamma_factor(gamma) ==
    IF gamma.n > 0 THEN Q(gamma.d, gamma.n) ELSE Q(-gamma.d, -gamma.n)

\* line 25: 0.0 ** x raises ZeroDivisionError for x < 0
coeff_raises(i, gf) == gf.n < 0 /\ i = 0

\* line 25: (i / (samples - 1)) ** gamma_factor
coeff(i, gf) ==
    IF gf.n < 0
    THEN [num |-> Power(samples - 1, -gf.n), den |-> Power(i, -gf.n), root |-> gf.d]
    ELSE [num |-> Power(i, gf.n), den |-> Power(samples - 1, gf.n), root |-> gf.d]

\* line 26: brightness * coeff * cb, for one channel
value(brightness, co, cb) ==
    [num  |-> Power(brightness.n * cb.n, co.root) * co.num,
     den  |-> Power(brightness.d * cb.d, co.root) * co.den,
     root |-> co.root]

\* lines 24-30: one sample, a ColorRGB
vcg_no_brightness(i, gf, brightness, colorbody) ==
    [c \in 1..3 |-> value(Q(brightness.d, brightness.d), coeff(i, gf), colorbody[c])]

vcg_over_samples(i, gf, brightness, colorbody) ==
    LET co == coeff(i, gf)
        c0 == [co EXCEPT !.den = Power(samples, gf.n)]
    IN  [c \in 1..3 |-> value(brightness, c0, colorbody[c])]

vcg(i, gf, brightness, colorbody) ==
    [c \in 1..3 |-> value(brightness, coeff(i, gf), colorbody[c])]

\* lines 16-32: the call raises when line 18 does, or line 25 for the first sample
generate_vcgt_raises(gamma) ==
    \/ gamma_factor_raises(gamma)
    \/ coeff_raises(0, gamma_factor(gamma))

\* lines 16-32; colorbody is what color_get_blackbody_rgb answered
generate_vcgt(gamma, colorbody, brightness) ==
    [i \in 0..(samples - 1) |-> vcg(i, gamma_factor(gamma), brightness, colorbody)]

-----------------------------------------------------------------------------
(* Parser.parse, src/lumi.py:70-75 *)

\* line 74: max(min(float(args.brightness), 1), 0)
ClampBrightness(b) == PyMax(PyMin(b, Q(1, 1)), Q(0, 1))

\* the numbers the command line can carry
Gammas ==
    {Q(n, d) : n \in 1..MaxGammaNum, d \in GammaDens} \cup {Q(0, 1), Q(-1, 1)}

GammaArgs == {g \in Gammas : g.n <= 0 \/ GCD(g.n, g.d) = 1}

BrightnessArgs == {Q(k, UnitSteps) : k \in -1..(UnitSteps + 1)}

\* the white points color_get_blackbody_rgb can answer: components in [0, 1]
Unit == {Q(k, UnitSteps) : k \in 0..UnitSteps}
WhitePoints == [1..3 -> Unit]

-----------------------------------------------------------------------------
(* Strings, paths and the colord data the lifecycle works on *)

PROFILE_PREFIX == "lumi-"

\* Python's `x in s` for a string s
Contains(x, s) == \E i \in DOMAIN s : s[i] = x

Range(s) == {s[i] : i \in DOMAIN s}

None == 0

\* tempfile.gettempdir() and the directory import_profile_sync copies into
TempDir == "/tmp/"
IccDir == "~/.local/share/icc/"

\* the profiles colord knows before the tool ever ran
StandardProfile ==
    [id |-> <<"icc-", "sRGB">>, filename |-> <<"/usr/share/color/icc/", "sRGB.icc">>,
     metadata |-> {}, vcgt |-> <<>>]
VendorProfile ==
    [id |-> <<"icc-", "vendor">>, filename |-> <<"/usr/share/color/icc/", "vendor.icc">>,
     metadata |-> {}, vcgt |-> <<>>]
\* a profile another client created with an id of its choosing
CustomIdProfile ==
    [id |-> <<"lumi-", "custom">>, filename |-> <<"/var/lib/colord/icc/", "custom.icc">>,
     metadata |-> {}, vcgt |-> <<>>]
\* a profile without a local file (an id-only handle)
VirtualProfile ==
    [id |-> <<"lumi-", "virtual">>, filename |-> <<>>, metadata |-> {}, vcgt |-> <<>>]
\* a file the user named with the prefix
RenamedProfile ==
    [id |-> <<"icc-", "renamed">>, filename |-> <<IccDir, "lumi-", "renamed.icc">>,
     metadata |-> {}, vcgt |-> <<>>]

InitialProfiles ==
    (1 :> StandardProfile) @@ (2 :> VendorProfile) @@ (3 :> CustomIdProfile)
        @@ (4 :> VirtualProfile) @@ (5 :> RenamedProfile)

\* the store without the standard profile (find_profile_by_filename_sync finds none)
Without(f, k) == [x \in DOMAIN f \ {k} |-> f[x]]

FilesOf(ps) == {ps[k].filename : k \in DOMAIN ps} \ {<<>>}

\* a device: its kind, its enabled flag, its profiles (the default first) and
\* those of them attached with the relation HARD
Display(enabled, profs) ==
    [kind |-> "display", enabled |-> enabled, profiles |-> profs, hard |-> {}]
Printer == [kind |-> "printer", enabled |-> TRUE, profiles |-> <<>>, hard |-> {}]

\* a display starts with no profile or with one profile, its default
InitialLists == {<<>>, <<2>>, <<3>>, <<4>>, <<5>>}
InitialDisplays == {Display(e, l) : e \in BOOLEAN, l \in InitialLists}
InitialDevices ==
    {<<>>, <<Printer>>}
        \cup {<<d>> : d \in InitialDisplays}
        \cup {<<Printer, d>> : d \in {Display(FALSE, <<>>), Display(TRUE, <<2>>)}}
        \cup {<<d, Display(TRUE, <<2>>)>> : d \in InitialDisplays}

-----------------------------------------------------------------------------
(* Bounds of the lifecycle *)

\* runs of main() in one behaviour
MaxRuns == 3
\* collaborator calls that fail in one behaviour
MaxFaults == 1
\* the instances of the tool; the sequential specification runs one
Instances == {1}

\* -d/--display is type=int: any integer; these cover every case of the list
\* indexing for up to two display devices
DisplayArgs == {-3, -1, 0, 1, 2}
\* -g/--gamma in the lifecycle: 1 (the default), and the invalid 0 and -1
RunGammas == {Q(1, 1), Q(0, 1), Q(-1, 1)}

-----------------------------------------------------------------------------
(* The collaborator: colord's client, device and profile calls, as the      *)
(* interface of the specification describes them (section 4.3).             *)

\* get_display_devices, lines 92-100: the devices of kind DISPLAY, in order
RECURSIVE DisplayIndices(_, _)
DisplayIndices(devs, i) ==
    IF i > Len(devs) THEN <<>>
    ELSE IF devs[i].kind = "display" THEN <<i>> \o DisplayIndices(devs, i + 1)
    ELSE DisplayIndices(devs, i + 1)

get_display_devices(devs) == DisplayIndices(devs, 1)

\* device.add_profile_sync(HARD, profile): the profile joins the device's list
add_profile_soft(devs, d, k) ==
    [devs EXCEPT ![d].profiles = Append(@, k)]

add_profile_first(devs, d, k) ==
    [devs EXCEPT ![1].profiles = Append(@, k), ![1].hard = @ \cup {k}]

add_profile(devs, d, k) ==
    [devs EXCEPT ![d].profiles = Append(@, k), ![d].hard = @ \cup {k}]

\* lines 147-148, is_device_enabled: display.get_enabled()
is_device_enabled_always(devs, d) == TRUE

is_device_enabled(devs, d) == devs[d].enabled

\* device.make_profile_default_sync(profile): the profile becomes the first
Without1(s, k) == SelectSeq(s, LAMBDA x : x # k)

make_profile_default_noop(devs, d, k) == devs

make_profile_default(devs, d, k) ==
    [devs EXCEPT ![d].profiles = <<k>> \o Without1(@, k)]

\* find_profile_by_filename_sync(name): a profile whose file is called name
find_profile_by_filename_any(ps, name) ==
    LET found == {k \in DOMAIN ps : ps[k].filename # <<>>}
    IN  IF found = {} THEN None ELSE CHOOSE k \in found : TRUE

find_profile_by_filename(ps, name) ==
    LET found == {k \in DOMAIN ps : ps[k].filename # <<>>
                                    /\ ps[k].filename[Len(ps[k].filename)] = name}
    IN  IF found = {} THEN None ELSE CHOOSE k \in found : TRUE

NewKey(ps) == (CHOOSE k \in DOMAIN ps : \A j \in DOMAIN ps : j <= k) + 1

\* profile_data.add_metadata(key, value): a dictionary entry, replaced if present
add_metadata(md, key, val) == {kv \in md : kv[1] # key} \cup {<<key, val>>}

-----------------------------------------------------------------------------
(* The state of one run of main(), lines 154-170 *)

IdleRun ==
    [pc |-> "idle", args |-> [display |-> 0, gamma |-> Q(1, 1), brightness |-> Q(1, 1)],
     display |-> None, base |-> None, info |-> <<>>, unique_id |-> "",
     profile_data |-> [metadata |-> {}, vcgt |-> <<>>], tmp_path |-> <<>>, new_profile |-> None,
     swapped |-> FALSE, outcome |-> "none", log |-> <<>>,
     snap |-> [devices |-> <<>>, profiles |-> <<>>, files |-> {}]]

\* the order of the statements of main
main_next_retire_first(pc) ==
    CASE pc = "init" -> "get_current"
      [] pc = "get_current" -> "create_srgb"
      [] pc = "create_srgb" -> "info"
      [] pc = "info" -> "clone"
      [] pc = "clone" -> "vcgt"
      [] pc = "vcgt" -> "save"
      [] pc = "save" -> "import"
      [] pc = "import" -> "attach"
      [] pc = "attach" -> "retire"
      [] pc = "retire" -> "default"
      [] pc = "default" -> "done"

main_next(pc) ==
    CASE pc = "init" -> "get_current"
      [] pc = "get_current" -> "create_srgb"
      [] pc = "create_srgb" -> "info"
      [] pc = "info" -> "clone"
      [] pc = "clone" -> "vcgt"
      [] pc = "vcgt" -> "save"
      [] pc = "save" -> "import"
      [] pc = "import" -> "attach"
      [] pc = "attach" -> "default"
      [] pc = "default" -> "retire"
      [] pc = "retire" -> "done"

\* the run moves on to its next statement; after the last one it has succeeded
Advance(r) ==
    LET n == main_next(r.pc)
    IN  [r EXCEPT !.pc = n, !.outcome = IF n = "done" THEN "ok" ELSE @]

\* the run ends with an uncaught exception or exit()
Raise(r, e) == [r EXCEPT !.pc = "done", !.outcome = e]

Logged(r, calls) == [r EXCEPT !.log = @ \o calls]

\* what the history keeps of a run when it ends
Record(h, r) ==
    IF r.pc # "done" THEN h
    ELSE [h EXCEPT !.failed = @ \/ r.outcome # "ok",
                   !.swapped = IF r.outcome = "ok" THEN @ \cup {r.display} ELSE @]

-----------------------------------------------------------------------------
(* Pure pieces of ProfileMgr and main *)

\* line 84: device >= len(self.devices)
display_not_found_gt(device, displays) == device > Len(displays)

display_not_found(device, displays) == device >= Len(displays)

\* line 87: self.devices[device], a Python list index (negative from the end)
index_raises(device, displays) == device < -Len(displays) \/ device >= Len(displays)

list_index(device, displays) ==
    IF device >= 0 THEN displays[device + 1] ELSE displays[Len(displays) + device + 1]

\* line 161: base_profile.get_filename() or base_profile.get_id()
base_profile_info_id(profile) == profile.id

base_profile_info(profile) ==
    IF profile.filename # <<>> THEN profile.filename ELSE profile.id

\* line 119: os.path.join(tempfile.gettempdir(), new_name)
tmp_path_of(new_name) == <<TempDir>> \o new_name

\* the path import_profile_sync copies the file to
imported_path_of(tmp_path) == <<IccDir>> \o Tail(tmp_path)

\* lines 126-129: the files after try: import_profile_sync(...) finally: os.remove
after_import_no_finally(fs, tmp_path, imported) ==
    IF imported THEN (fs \cup {imported_path_of(tmp_path)}) \ {tmp_path} ELSE fs

after_import(fs, tmp_path, imported) ==
    (IF imported THEN fs \cup {imported_path_of(tmp_path)} ELSE fs) \ {tmp_path}

\* lines 115-116 and 165-166: load_icc(0) gives an Icc object in memory, and
\* add_metadata and set_vcgt change that object; the stored profiles after them
stored_profiles_shared(profs, k, data) ==
    [profs EXCEPT ![k].metadata = data.metadata, ![k].vcgt = data.vcgt]

stored_profiles(profs, k, data) == profs

\* line 169: PROFILE_PREFIX in base_profile_info
is_generated_always(info) == TRUE

is_generated(info) == Contains(PROFILE_PREFIX, info)

\* lines 111-113, remove_profile: whether os.remove is called, and the files after
remove_profile_calls_always(profile) == TRUE

remove_profile_calls(profile) == profile.filename # <<>>

remove_profile_keeps(fs, profile) == fs

remove_profile(fs, profile) ==
    IF profile.filename # <<>> THEN fs \ {profile.filename} ELSE fs

-----------------------------------------------------------------------------
(* The steps of main(), lines 154-170 *)

\* line 155: Parser().parse(); the run starts
Start(p) ==
    /\ run[p].pc \in {"idle", "done"}
    /\ runs < MaxRuns
    /\ \E d \in DisplayArgs, g \in RunGammas :
          run' = [run EXCEPT ![p] =
                     [IdleRun EXCEPT !.pc = "init",
                                     !.args = [display |-> d, gamma |-> g,
                                               brightness |-> ClampBrightness(Q(1, 1))],
                                     !.snap = [devices |-> devices, profiles |-> profiles,
                                               files |-> files]]]
    /\ runs' = runs + 1
    /\ UNCHANGED <<devices, profiles, files, uuids, faults, hist, vcgtVars>>

\* line 156, ProfileMgr.__init__ (lines 79-90)
ProfileMgrInit(p) ==
    /\ run[p].pc = "init"
    /\ LET r == Logged(run[p], <<"connect_sync", "get_devices_sync">>)
           displays == get_display_devices(devices)
           device == r.args.display
       IN  IF display_not_found(device, displays)
           THEN /\ run' = [run EXCEPT ![p] = Raise(r, "DeviceNotFound")]
                /\ UNCHANGED devices
           ELSE IF index_raises(device, displays)
           THEN /\ run' = [run EXCEPT ![p] = Raise(r, "IndexError")]
                /\ UNCHANGED devices
           ELSE LET d == list_index(device, displays)
                IN  IF ~is_device_enabled(devices, d)
                    THEN /\ devices' = [devices EXCEPT ![d].enabled = TRUE]
                         /\ run' = [run EXCEPT ![p] =
                                Advance(Logged([r EXCEPT !.display = d],
                                               <<"set_enabled_sync">>))]
                    ELSE /\ run' = [run EXCEPT ![p] = Advance([r EXCEPT !.display = d])]
                         /\ UNCHANGED devices
    /\ hist' = Record(hist, run'[p])
    /\ UNCHANGED <<profiles, files, uuids, runs, faults, vcgtVars>>

\* line 158, get_current_profile (lines 102-109)
GetCurrentProfile(p) ==
    /\ run[p].pc = "get_current"
    /\ LET r == Logged(run[p], <<"get_profiles">>)
           profs == devices[r.display].profiles
       IN  run' = [run EXCEPT ![p] =
                      Advance([r EXCEPT !.base = IF profs # <<>> THEN profs[1] ELSE None])]
    /\ UNCHANGED <<devices, profiles, files, uuids, runs, faults, hist, vcgtVars>>

\* lines 159-160, create_and_set_sRGB_profile (lines 135-142)
CreateAndSetSRGBProfile(p) ==
    /\ run[p].pc = "create_srgb"
    /\ IF run[p].base # None
       THEN /\ run' = [run EXCEPT ![p] = Advance(@)]
            /\ UNCHANGED devices
       ELSE LET r == Logged(run[p], <<"find_profile_by_filename_sync">>)
                profile == find_profile_by_filename(profiles, "sRGB.icc")
            IN  IF profile = None
                THEN /\ run' = [run EXCEPT ![p] = Advance(r)]
                     /\ UNCHANGED devices
                ELSE /\ devices' = add_profile(devices, r.display, profile)
                     /\ run' = [run EXCEPT ![p] =
                            Advance(Logged([r EXCEPT !.base = profile],
                                           <<"add_profile_sync(sRGB)">>))]
    /\ UNCHANGED <<profiles, files, uuids, runs, faults, hist, vcgtVars>>

\* line 161: None has no get_filename, the run ends without a base profile
BaseProfileInfo(p) ==
    /\ run[p].pc = "info"
    /\ IF run[p].base = None
       THEN run' = [run EXCEPT ![p] = Raise(@, "NoBaseProfileAvailable")]
       ELSE run' = [run EXCEPT ![p] =
                       Advance([run[p] EXCEPT
                                   !.info = base_profile_info(profiles[run[p].base])])]
    /\ hist' = Record(hist, run'[p])
    /\ UNCHANGED <<devices, profiles, files, uuids, runs, faults, vcgtVars>>

\* lines 163-165: uuid4, clone_profile_data (load_icc), add_metadata
CloneAndTag(p) ==
    /\ run[p].pc = "clone"
    /\ LET r == Logged(run[p], <<"load_icc", "add_metadata">>)
           unique_id == ToString(uuids + 1)
           base == profiles[r.base]
       IN  run' = [run EXCEPT ![p] =
                      Advance([r EXCEPT !.unique_id = unique_id,
                                        !.profile_data =
                                            [metadata |-> add_metadata(base.metadata,
                                                                       "uuid", unique_id),
                                             vcgt |-> base.vcgt]])]
    /\ profiles' = stored_profiles(profiles, run[p].base, run'[p].profile_data)
    /\ uuids' = uuids + 1
    /\ UNCHANGED <<devices, files, runs, faults, hist, vcgtVars>>

\* line 166: set_vcgt(generate_vcgt(...)).  The profile data keeps the arguments
\* of the curve; SpecVcgt computes the samples.
SetVcgt(p) ==
    /\ run[p].pc = "vcgt"
    /\ LET r == Logged(run[p], <<"generate_vcgt">>)
       IN  IF generate_vcgt_raises(r.args.gamma)
           THEN run' = [run EXCEPT ![p] = Raise(r, "ZeroDivisionError")]
           ELSE run' = [run EXCEPT ![p] =
                           Advance(Logged([r EXCEPT !.profile_data.vcgt =
                                               <<r.args.gamma, r.args.brightness>>],
                                          <<"set_vcgt">>))]
    /\ profiles' = stored_profiles(profiles, run[p].base, run'[p].profile_data)
    /\ hist' = Record(hist, run'[p])
    /\ UNCHANGED <<devices, files, uuids, runs, faults, vcgtVars>>

\* lines 119-124: profile_data.save_file(tmp_path); the write may fail, and a
\* failed write creates no file at tmp_path (the contents are replaced atomically)
SaveFile(p) ==
    /\ run[p].pc = "save"
    /\ LET r == Logged([run[p] EXCEPT
                           !.tmp_path = tmp_path_of(<<PROFILE_PREFIX, run[p].unique_id>>)],
                       <<"save_file">>)
       IN  \/ /\ files' = files \cup {r.tmp_path}
              /\ run' = [run EXCEPT ![p] = Advance(r)]
              /\ UNCHANGED faults
           \/ /\ faults < MaxFaults
              /\ faults' = faults + 1
              /\ run' = [run EXCEPT ![p] = Raise(r, "ServiceError")]
              /\ UNCHANGED files
    /\ hist' = Record(hist, run'[p])
    /\ UNCHANGED <<devices, profiles, uuids, runs, vcgtVars>>

\* lines 126-129: try: import_profile_sync(tmp_path) finally: os.remove(tmp_path)
ImportProfile(p) ==
    /\ run[p].pc = "import"
    /\ LET r == Logged(run[p], <<"import_profile_sync", "os.remove(tmp_path)">>)
           k == NewKey(profiles)
       IN  \/ /\ imported_path_of(r.tmp_path) \notin files
              /\ profiles' = profiles @@
                     (k :> [id |-> <<"icc-", r.unique_id>>,
                            filename |-> imported_path_of(r.tmp_path),
                            metadata |-> r.profile_data.metadata,
                            vcgt |-> r.profile_data.vcgt])
              /\ files' = after_import(files, r.tmp_path, TRUE)
              /\ run' = [run EXCEPT ![p] = Advance([r EXCEPT !.new_profile = k])]
              /\ hist' = [hist EXCEPT !.generated = @ \cup {k}]
              /\ UNCHANGED faults
           \/ /\ faults < MaxFaults
              /\ faults' = faults + 1
              /\ files' = after_import(files, r.tmp_path, FALSE)
              /\ run' = [run EXCEPT ![p] = Raise(r, "ServiceError")]
              /\ hist' = Record(hist, run'[p])
              /\ UNCHANGED profiles
    /\ UNCHANGED <<devices, uuids, runs, vcgtVars>>

\* lines 131-133: display.add_profile_sync(HARD, new_profile)
AttachNewProfile(p) ==
    /\ run[p].pc = "attach"
    /\ LET r == Logged(run[p], <<"add_profile_sync(new)">>)
       IN  \/ /\ devices' = add_profile(devices, r.display, r.new_profile)
              /\ run' = [run EXCEPT ![p] = Advance(r)]
              /\ UNCHANGED faults
           \/ /\ faults < MaxFaults
              /\ faults' = faults + 1
              /\ run' = [run EXCEPT ![p] = Raise(r, "ServiceError")]
              /\ UNCHANGED devices
    /\ hist' = Record(hist, run'[p])
    /\ UNCHANGED <<profiles, files, uuids, runs, vcgtVars>>

\* line 168, make_profile_default (lines 144-145)
MakeProfileDefault(p) ==
    /\ run[p].pc = "default"
    /\ LET r == Logged(run[p], <<"make_profile_default_sync">>)
       IN  \/ /\ devices' = make_profile_default(devices, r.display, r.new_profile)
              /\ run' = [run EXCEPT ![p] = Advance([r EXCEPT !.swapped = TRUE])]
              /\ UNCHANGED faults
           \/ /\ faults < MaxFaults
              /\ faults' = faults + 1
              /\ run' = [run EXCEPT ![p] = Raise(r, "ServiceError")]
              /\ UNCHANGED devices
    /\ hist' = Record(hist, run'[p])
    /\ UNCHANGED <<profiles, files, uuids, runs, vcgtVars>>

\* lines 169-170: if PROFILE_PREFIX in base_profile_info: remove_profile(base)
\* os.remove raises when the file is already gone (another instance removed it)
\* or may not be removed; nothing catches the exception
RetireIfGenerated(p) ==
    /\ run[p].pc = "retire"
    /\ LET r == run[p]
           base == profiles[r.base]
           rr == Logged(r, <<"os.remove(base)">>)
       IN  IF is_generated(r.info) /\ remove_profile_calls(base)
           THEN \/ /\ base.filename \in files
                   /\ files' = remove_profile(files, base)
                   /\ run' = [run EXCEPT ![p] = Advance(rr)]
                   /\ UNCHANGED faults
                \/ /\ base.filename \notin files
                   /\ run' = [run EXCEPT ![p] = Raise(rr, "FileNotFoundError")]
                   /\ UNCHANGED <<files, faults>>
                \/ /\ base.filename \in files
                   /\ faults < MaxFaults
                   /\ faults' = faults + 1
                   /\ run' = [run EXCEPT ![p] = Raise(rr, "PermissionError")]
                   /\ UNCHANGED files
           ELSE /\ run' = [run EXCEPT ![p] = Advance(r)]
                /\ UNCHANGED <<files, faults>>
    /\ hist' = Record(hist, run'[p])
    /\ UNCHANGED <<devices, profiles, uuids, runs, vcgtVars>>

-----------------------------------------------------------------------------
(* Spec: runs of main(), one after the other *)

Init ==
    /\ devices \in InitialDevices
    /\ profiles \in {InitialProfiles, Without(InitialProfiles, 1)}
    /\ files = FilesOf(profiles)
    /\ run = [p \in Instances |-> IdleRun]
    /\ uuids = 0
    /\ runs = 0
    /\ faults = 0
    /\ hist = [failed |-> FALSE, swapped |-> {}, generated |-> {}]
    /\ vpc = "idle"
    /\ vargs = [gamma |-> Q(1, 1), brightness |-> Q(1, 1), colorbody |-> [c \in 1..3 |-> Q(1, 1)]]
    /\ vcgt = <<>>

Next ==
    \E p \in Instances :
        \/ Start(p)
        \/ ProfileMgrInit(p)
        \/ GetCurrentProfile(p)
        \/ CreateAndSetSRGBProfile(p)
        \/ BaseProfileInfo(p)
        \/ CloneAndTag(p)
        \/ SetVcgt(p)
        \/ SaveFile(p)
        \/ ImportProfile(p)
        \/ AttachNewProfile(p)
        \/ MakeProfileDefault(p)
        \/ RetireIfGenerated(p)

Spec == Init /\ [][Next]_vars

-----------------------------------------------------------------------------
(* SpecConc: two processes run main() at the same time.  Each collaborator *)
(* call is one blocking call (lines 79-170), so the calls of the two       *)
(* processes interleave in any order.                                      *)

ConcInstances == {1, 2}

\* one display, whose default profile carries the prefix in its filename
InitConc ==
    /\ devices = <<Display(TRUE, <<5>>)>>
    /\ profiles = InitialProfiles
    /\ files = FilesOf(profiles)
    /\ run = [p \in ConcInstances |-> IdleRun]
    /\ uuids = 0
    /\ runs = 0
    /\ faults = 0
    /\ hist = [failed |-> FALSE, swapped |-> {}, generated |-> {}]
    /\ vpc = "idle"
    /\ vargs = [gamma |-> Q(1, 1), brightness |-> Q(1, 1), colorbody |-> [c \in 1..3 |-> Q(1, 1)]]
    /\ vcgt = <<>>

\* both processes are started as `lumi`: display 0, gamma 1
StartConc(p) ==
    /\ Start(p)
    /\ run'[p].args.display = 0
    /\ run'[p].args.gamma = Q(1, 1)

NextConc ==
    \E p \in ConcInstances :
        \/ StartConc(p)
        \/ ProfileMgrInit(p)
        \/ GetCurrentProfile(p)
        \/ CreateAndSetSRGBProfile(p)
        \/ BaseProfileInfo(p)
        \/ CloneAndTag(p)
        \/ SetVcgt(p)
        \/ SaveFile(p)
        \/ ImportProfile(p)
        \/ AttachNewProfile(p)
        \/ MakeProfileDefault(p)
        \/ RetireIfGenerated(p)

SpecConc == InitConc /\ [][NextConc]_vars

-----------------------------------------------------------------------------
(* SpecVcgt: the curve synthesis on its own, Parser.parse then generate_vcgt *)

InitVcgt ==
    /\ devices = <<>>
    /\ profiles = InitialProfiles
    /\ files = FilesOf(profiles)
    /\ run = [p \in Instances |-> IdleRun]
    /\ uuids = 0
    /\ runs = 0
    /\ faults = 0
    /\ hist = [failed |-> FALSE, swapped |-> {}, generated |-> {}]
    /\ vpc = "idle"
    /\ vargs \in [gamma : GammaArgs, brightness : BrightnessArgs, colorbody : WhitePoints]
    /\ vcgt = <<>>

\* lines 72-74: the numbers of the command line, brightness clamped to [0, 1]
Parse ==
    /\ vpc = "idle"
    /\ vpc' = "parsed"
    /\ vargs' = [vargs EXCEPT !.brightness = ClampBrightness(@)]
    /\ UNCHANGED <<vcgt, lifecycleVars>>

\* line 166: generate_vcgt(args.gamma, args.temperature, args.brightness)
GenerateVcgt ==
    /\ vpc = "parsed"
    /\ IF generate_vcgt_raises(vargs.gamma)
       THEN /\ vpc' = "raised"
            /\ UNCHANGED vcgt
       ELSE /\ vpc' = "done"
            /\ vcgt' = generate_vcgt(vargs.gamma, vargs.colorbody, vargs.brightness)
    /\ UNCHANGED <<vargs, lifecycleVars>>

NextVcgt == Parse \/ GenerateVcgt

SpecVcgt == InitVcgt /\ [][NextVcgt]_vars

-----------------------------------------------------------------------------
(* Properties *)

Finished(p) == run[p].pc = "done"
Quiet == \A p \in Instances : run[p].pc \in {"idle", "done"}
Called(p, call) == Contains(call, run[p].log)
Base(p) == profiles[run[p].base]
Default(d) == devices[d].profiles[1]
Attached(d) == Range(devices[d].profiles)
\* the generated profiles of device d whose resource exists
Installed(d) == {k \in Attached(d) \cap hist.generated : profiles[k].filename \in files}

C2_DeviceNotFound ==
    \A p \in Instances :
        (/\ run[p].pc \notin {"idle", "init"}
         /\ run[p].args.display >=
                Cardinality({i \in DOMAIN run[p].snap.devices :
                                run[p].snap.devices[i].kind = "display"}))
        => /\ Finished(p)
           /\ run[p].outcome = "DeviceNotFound"
           /\ run[p].log = <<"connect_sync", "get_devices_sync">>
           /\ devices = run[p].snap.devices
           /\ profiles = run[p].snap.profiles
           /\ files = run[p].snap.files

\* the default index 0 where the only device is a printer
C2_Witness ==
    \E p \in Instances :
        /\ Finished(p) /\ run[p].outcome = "DeviceNotFound"
        /\ run[p].args.display = 0
        /\ devices = <<Printer>>

C4_RetireFailureNonFatal ==
    \A p \in Instances : (Finished(p) /\ run[p].swapped) => run[p].outcome = "ok"

EarlyFailures == {"DeviceNotFound", "IndexError", "NoBaseProfileAvailable"}

C6_RetiresPrefixInFilenameOrId ==
    \A p \in Instances :
        (/\ Finished(p) /\ run[p].swapped
         /\ Base(p).filename # <<>>
         /\ \/ Contains(PROFILE_PREFIX, Base(p).filename)
            \/ Contains(PROFILE_PREFIX, Base(p).id))
        => Called(p, "os.remove(base)")

\* C6 (amended): a run that completed steps 1-6 on a base profile with the
\* prefix in its filename calls os.remove on that file; the resource is gone
\* unless that call itself failed.
C6_RetiresPrefixInFilename ==
    \A p \in Instances :
        (/\ Finished(p) /\ run[p].swapped
         /\ Contains(PROFILE_PREFIX, Base(p).filename))
        => /\ Called(p, "os.remove(base)")
           /\ Base(p).filename \notin files \/ run[p].outcome = "PermissionError"

\* a second run retired the profile the first one generated
C6_Witness ==
    \E p \in Instances :
        /\ Finished(p) /\ run[p].outcome = "ok"
        /\ run[p].base \in hist.generated
        /\ Base(p).filename \notin files

\* the collaborator calls of one run, in the order of section 4.4
StepOrder ==
    <<"connect_sync", "get_devices_sync", "set_enabled_sync", "get_profiles",
      "find_profile_by_filename_sync", "add_profile_sync(sRGB)", "load_icc",
      "add_metadata", "generate_vcgt", "set_vcgt", "save_file", "import_profile_sync",
      "os.remove(tmp_path)", "add_profile_sync(new)", "make_profile_default_sync",
      "os.remove(base)">>

Rank(call) == CHOOSE i \in DOMAIN StepOrder : StepOrder[i] = call

\* C7: the calls of a run follow the order select device, resolve base, clone
\* and tag, embed curve, materialize/import/attach, set default, retire; the
\* base profile's resource is removed only once the new profile is the default.
C7_StepsInOrder ==
    \A p \in Instances :
        /\ \A i, j \in DOMAIN run[p].log :
              i < j => Rank(run[p].log[i]) < Rank(run[p].log[j])
        /\ Called(p, "os.remove(base)") =>
              /\ Called(p, "make_profile_default_sync")
              /\ run[p].swapped
              /\ Default(run[p].display) = run[p].new_profile

\* a run that retired its base profile
C7_Witness ==
    \E p \in Instances :
        /\ Finished(p) /\ run[p].outcome = "ok"
        /\ Called(p, "os.remove(base)")
        /\ Base(p).filename \notin files

\* C8 (as claimed): generate_vcgt is never entered with gamma <= 0, and such a
\* gamma changes no device.
C8_GammaRejectedBeforeGeneration ==
    \A p \in Instances :
        /\ Called(p, "generate_vcgt") => run[p].args.gamma.n > 0
        /\ (Finished(p) /\ run[p].args.gamma.n <= 0) => devices = run[p].snap.devices

\* C9: for gamma > 0, a white point in [0,1]^3 and brightness in [0,1] the
\* curve has exactly 512 samples, sample 0 is black, sample 511 is
\* brightness * white_point, every channel value lies in [0, brightness] and
\* every channel is non-decreasing in the sample index.
C9_CurveShape ==
    vpc = "done" =>
        /\ DOMAIN vcgt = 0..511
        /\ \A c \in 1..3 :
              LET top == vcgt[511][c]
                  bw == Q(vargs.brightness.n * vargs.colorbody[c].n,
                          vargs.brightness.d * vargs.colorbody[c].d)
              IN  /\ vcgt[0][c].num = 0
                  /\ ValEq(top, AsValue(bw, top.root, top.den))
                  /\ \A i \in 0..511 :
                        /\ vcgt[i][c].num >= 0 /\ vcgt[i][c].den > 0
                        /\ ValLeq(vcgt[i][c], AsValue(vargs.brightness, top.root, top.den))
                  /\ \A i \in 0..510 : ValLeq(vcgt[i][c], vcgt[i + 1][c])

\* gamma 2 at half brightness: a curve that is neither flat nor linear
C9_Witness ==
    /\ vpc = "done"
    /\ vargs.gamma = Q(2, 1)
    /\ vargs.brightness = Q(1, 2)
    /\ vcgt[0][1].num < vcgt[1][1].num
    /\ vcgt[1][1].num < vcgt[511][1].num
    /\ vcgt[511][3].num = 0

\* C10: with gamma = 1 every sample is brightness * (i/511) * white_point; with
\* white point (1,1,1) and brightness 1 it is the identity ramp i/511.
C10_LinearRamp ==
    (vpc = "done" /\ vargs.gamma = Q(1, 1)) =>
        \A i \in 0..511, c \in 1..3 :
            /\ ValEq(vcgt[i][c],
                     [num |-> vargs.brightness.n * i * vargs.colorbody[c].n,
                      den |-> vargs.brightness.d * 511 * vargs.colorbody[c].d,
                      root |-> 1])
            /\ (vargs.brightness = Q(1, 1) /\ vargs.colorbody[c].n = vargs.colorbody[c].d)
                  => /\ vcgt[i][c].root = 1
                     /\ vcgt[i][c].num * 511 = i * vcgt[i][c].den

\* the linear ramp at half brightness
C10_Witness ==
    /\ vpc = "done"
    /\ vargs.gamma = Q(1, 1)
    /\ vargs.brightness = Q(1, 2)
    /\ vargs.colorbody[1] = Q(2, 2)
    /\ vcgt[256][1].num * 511 * 2 = 256 * vcgt[256][1].den

\* C11: on a device without a profile, run 1 attaches the standard sRGB profile
\* with the relation HARD, uses it as base, installs a generated profile A and
\* makes it the default without removing sRGB; run 2 then resolves the base A,
\* installs B, makes B the default and removes the file of A.
C11_TwoRunsFromNoProfile ==
    \A p \in Instances :
        (Finished(p) /\ run[p].outcome = "ok") =>
            LET d == run[p].display
                before == run[p].snap.devices[d].profiles
                new == run[p].new_profile
            IN  /\ before = <<>> =>
                      /\ Base(p) = StandardProfile
                      /\ run[p].base \in devices[d].hard
                      /\ new \in hist.generated
                      /\ devices[d].profiles = <<new, run[p].base>>
                      /\ ~Called(p, "os.remove(base)")
                      /\ StandardProfile.filename \in files
                /\ (/\ Len(before) = 2
                    /\ before[1] \in hist.generated
                    /\ profiles[before[2]] = StandardProfile) =>
                      /\ run[p].base = before[1]
                      /\ new \in hist.generated /\ new # before[1]
                      /\ devices[d].profiles = <<new>> \o before
                      /\ profiles[new].filename \in files
                      /\ Called(p, "os.remove(base)")
                      /\ profiles[before[1]].filename \notin files

\* the end of the second run
C11_Witness ==
    \E p \in Instances :
        /\ Finished(p) /\ run[p].outcome = "ok" /\ runs = 2
        /\ Len(run[p].snap.devices[run[p].display].profiles) = 2
        /\ run[p].snap.devices[run[p].display].profiles[2] = 1
        /\ run[p].base \in hist.generated
        /\ Default(run[p].display) = run[p].new_profile
        /\ Base(p).filename \notin files

InstallCalls ==
    {"save_file", "os.remove(tmp_path)", "add_profile_sync(new)", "make_profile_default_sync"}

Times(p, call) == Cardinality({i \in DOMAIN run[p].log : run[p].log[i] = call})

\* C13: once ProfileMgr is constructed the selected device has color management
\* enabled: set_enabled is called exactly once if the device was disabled and
\* not at all if it was enabled.
C13_DeviceEnabledOnce ==
    \A p \in Instances :
        (run[p].pc \notin {"idle", "init"} /\ run[p].display # None) =>
            /\ devices[run[p].display].enabled
            /\ Times(p, "set_enabled_sync") =
                   IF run[p].snap.devices[run[p].display].enabled THEN 0 ELSE 1

\* construction has just enabled a disabled device
C13_Witness ==
    \E p \in Instances :
        /\ run[p].pc = "get_current"
        /\ ~run[p].snap.devices[run[p].display].enabled
        /\ devices[run[p].display].enabled
        /\ Times(p, "set_enabled_sync") = 1

\* C14: cloning, tagging and embedding the curve act on the copy in memory:
\* until the retire step the stored base profile keeps the resource, the
\* metadata and the curve it had when the run started.
C14_BaseUntouchedUntilRetire ==
    \A p \in Instances :
        (run[p].base # None /\ ~Called(p, "os.remove(base)")) =>
            /\ run[p].base \in DOMAIN run[p].snap.profiles
            /\ profiles[run[p].base] = run[p].snap.profiles[run[p].base]
            /\ Base(p).filename \in files <=> Base(p).filename \in run[p].snap.files

\* the new profile is installed, its data differs from the base in metadata and
\* curve, and the base has not been retired yet
C14_Witness ==
    \E p \in Instances :
        /\ run[p].pc = "retire"
        /\ Base(p) = RenamedProfile
        /\ run[p].profile_data.metadata # Base(p).metadata
        /\ run[p].profile_data.vcgt # Base(p).vcgt
        /\ profiles[run[p].new_profile].metadata = run[p].profile_data.metadata
        /\ Base(p).filename \in files

\* C15: when the superseded base profile counts as generated but has no
\* filename, remove_profile removes nothing and raises nothing, and the run
\* completes successfully.
C15_RetireSkippedWithoutFilename ==
    \A p \in Instances :
        (/\ Finished(p)
         /\ run[p].swapped
         /\ Base(p).filename = <<>>
         /\ Contains(PROFILE_PREFIX, Base(p).id)) =>
            /\ run[p].outcome = "ok"
            /\ ~Called(p, "os.remove(base)")
            /\ files = run[p].snap.files \cup {profiles[run[p].new_profile].filename}

\* a run whose base was the profile known by id only has finished
C15_Witness ==
    \E p \in Instances :
        /\ Finished(p)
        /\ run[p].outcome = "ok"
        /\ Base(p) = VirtualProfile
        /\ run[p].info = VirtualProfile.id
        /\ Default(run[p].display) = run[p].new_profile

\* the files that existed when the run of p started and are gone now
Removed(p) == run[p].snap.files \ files

\* the string line 169 inspects: the filename if there is one, else the id
Inspected(profile) == IF profile.filename = <<>> THEN profile.id ELSE profile.filename

\* C17: a run removes a profile's resource only in the retire step, only for
\* the base profile it resolved, and only when the string it inspects (the
\* filename if present, otherwise the id) contains "lumi-"; a base profile
\* whose filename and id both lack "lumi-" is never removed.
C17_RemovesOnlyGeneratedBase ==
    \A p \in Instances :
        run[p].pc # "idle" =>
            /\ Removed(p) # {} =>
                  /\ run[p].base # None
                  /\ Removed(p) = {Base(p).filename}
                  /\ Finished(p)
                  /\ run[p].log[Len(run[p].log)] = "os.remove(base)"
                  /\ \E i \in DOMAIN Inspected(Base(p)) :
                        Inspected(Base(p))[i] = PROFILE_PREFIX
            /\ (/\ run[p].base # None
                /\ PROFILE_PREFIX \notin Range(Base(p).filename)
                /\ PROFILE_PREFIX \notin Range(Base(p).id)) =>
                  /\ ~Called(p, "os.remove(base)")
                  /\ Base(p).filename \in files

\* an earlier run retired the renamed profile of one display, and the run that
\* has finished now superseded the vendor profile of the other and kept it
C17_Witness ==
    \E p \in Instances :
        /\ Finished(p)
        /\ run[p].outcome = "ok"
        /\ Base(p) = VendorProfile
        /\ Default(run[p].display) = run[p].new_profile
        /\ VendorProfile.filename \in files
        /\ \E d \in DOMAIN devices : RenamedProfile \in {profiles[k] : k \in Attached(d)}
        /\ RenamedProfile.filename \notin files

\* C18: in sequential operation a removed resource never belongs to the
\* device's current default, and after a successful run the default is the
\* profile that run imported, attached to the device, with its resource present.
C18_NeverRemovesDefault ==
    \A p \in Instances :
        /\ Called(p, "os.remove(base)") =>
              /\ Default(run[p].display) # run[p].base
              /\ Default(run[p].display) = run[p].new_profile
        /\ (run[p].pc # "idle" /\ run[p].display # None
                /\ devices[run[p].display].profiles # <<>>) =>
              profiles[Default(run[p].display)].filename \notin Removed(p)
        /\ (Finished(p) /\ run[p].outcome = "ok") =>
              /\ run[p].new_profile \in hist.generated
              /\ Default(run[p].display) = run[p].new_profile
              /\ run[p].new_profile \in Attached(run[p].display)
              /\ profiles[run[p].new_profile].filename \in files

\* a successful run has removed the resource of the generated base it superseded
C18_Witness ==
    \E p \in Instances :
        /\ Finished(p)
        /\ run[p].outcome = "ok"
        /\ Called(p, "os.remove(base)")
        /\ run[p].base \in hist.generated
        /\ Removed(p) = {Base(p).filename}
        /\ Default(run[p].display) = run[p].new_profile
        /\ profiles[run[p].new_profile].filename \in files

\* C19: a device is selected only when 0 <= display index < number of display
\* devices, and it is then the display at that position of the enumeration;
\* every other index, negative ones included, ends in the device-not-found
\* outcome with nothing changed.  Line 87 indexes a Python list, where -1 is
\* the last display, so this does not hold.
C19_SelectsOnlyIndexInRange ==
    \A p \in Instances :
        run[p].pc \notin {"idle", "init"} =>
            LET displays == get_display_devices(run[p].snap.devices)
                device == run[p].args.display
            IN  IF 0 <= device /\ device < Len(displays)
                THEN run[p].display = displays[device + 1]
                ELSE /\ run[p].display = None
                     /\ Finished(p)
                     /\ run[p].outcome = "DeviceNotFound"
                     /\ devices = run[p].snap.devices
                     /\ profiles = run[p].snap.profiles
                     /\ files = run[p].snap.files

\* C20: a run changes only the display it selected: every other device keeps
\* its enabled flag, its profile list and its default, whatever the outcome.
C20_OtherDevicesUnchanged ==
    \A p \in Instances :
        run[p].pc # "idle" =>
            /\ DOMAIN devices = DOMAIN run[p].snap.devices
            /\ \A d \in DOMAIN devices :
                  d # run[p].display => devices[d] = run[p].snap.devices[d]

\* a successful run on the second of two displays, the first one disabled
C20_Witness ==
    \E p \in Instances :
        /\ Finished(p)
        /\ run[p].outcome = "ok"
        /\ run[p].display = 2
        /\ devices[1].kind = "display"
        /\ ~devices[1].enabled
        /\ devices[1] = run[p].snap.devices[1]
        /\ Default(2) = run[p].new_profile
        /\ devices[2] # run[p].snap.devices[2]

\* C16: two processes on the same device, with no lock.  When both resolved
\* the same base profile and both called os.remove on it, at most one of the
\* calls removed the file (the other found it gone), and the profiles the two
\* runs generated are both attached to the device with their resources
\* present: more than one generated profile is installed.
C16_ConcurrentRetire ==
    \A p, q \in ConcInstances :
        (/\ p # q
         /\ Finished(p) /\ Finished(q)
         /\ run[p].display = run[q].display
         /\ run[p].base # None /\ run[p].base = run[q].base
         /\ Called(p, "os.remove(base)") /\ Called(q, "os.remove(base)")) =>
            /\ ~(run[p].outcome = "ok" /\ run[q].outcome = "ok")
            /\ run[p].new_profile # run[q].new_profile
            /\ {run[p].new_profile, run[q].new_profile} \subseteq Installed(run[p].display)
            /\ Default(run[p].display) \in {run[p].new_profile, run[q].new_profile}

\* both processes resolved the same base profile; the first removal succeeded,
\* the second found the file gone, and two generated profiles are installed
C16_Witness ==
    \E p, q \in ConcInstances :
        /\ p # q
        /\ Finished(p) /\ Finished(q)
        /\ run[p].base \in hist.generated /\ run[p].base = run[q].base
        /\ run[p].outcome = "ok" /\ Called(p, "os.remove(base)")
        /\ run[q].outcome = "FileNotFoundError"
        /\ Base(p).filename \notin files
        /\ Cardinality(Installed(run[p].display)) = 2

=============================================================================
